---- MODULE Spec2Model ----
(***************************************************************************)
(* Model of the workerai Cloudflare worker (src/src/worker/index.ts):      *)
(*   - the per-IP fixed-window rate limiter middleware,                    *)
(*   - the bearer-token auth middleware,                                   *)
(*   - POST /api/protected/chat/completions: the user-message insert, the  *)
(*     model call, the SSE line-buffer loop and the assistant insert,      *)
(*   - the session routes over the D1 tables sessions and messages,        *)
(*   - ChatDurableObject: the WebSocket fan-out.                           *)
(* The specifications share the variables: SpecRL (rate limiter alone,     *)
(* full quota), SpecStream (one turn's stream loop under every chunking),  *)
(* SpecHub (the durable object), SpecWatch (a turn beside the durable      *)
(* object of its session) and Spec, SpecNearQuota, SpecHistory (requests   *)
(* end to end from three starting states).                                 *)
(***************************************************************************)
EXTENDS Integers, Sequences, FiniteSets, TLC

VARIABLES
    now,          \* Date.now(), in ms
    rateLimiter,  \* Map<ip, {count, resetAt}>
    window,       \* history: per ip, the current fixed window as the spec counts it
    resp,         \* the last HTTP response sent
    reqs,         \* history: number of requests served (Spec only)
    db_sessions,  \* D1 table sessions: id -> row
    db_messages,  \* D1 table messages: rows in insertion (rowid) order
    turns,        \* the streamSSE callbacks, one per chat/completions request
    dels,         \* DELETE /sessions/:id handlers between their two statements
    uuids,        \* number of session ids crypto.randomUUID() has returned
    sessions,     \* ChatDurableObject.sessions, in Map insertion order
    sockets,      \* per server socket: "free" | "open" | "closed"
    inbox,        \* per socket: the frames its client has received
    lastPub       \* history: the last inbound frame the durable object handled

rlVars   == <<rateLimiter, window>>
dbVars   == <<db_sessions, db_messages, dels, uuids>>
hubVars  == <<sessions, sockets, inbox, lastPub>>
vars     == <<now, rateLimiter, window, resp, reqs, db_sessions, db_messages,
              turns, dels, uuids, sessions, sockets, inbox, lastPub>>

(***************************************************************************)
(* Bounds of the model                                                      *)
(***************************************************************************)
\* the clock advances in steps of TickMs up to MaxNow
TickMs == 30000
MaxNow == 60000

(***************************************************************************)
(* Program constants                                                        *)
(***************************************************************************)
RATE_LIMIT_MAX == 100
WINDOW_MS == 60000

IPs == {"ip1", "ip2"}
Users == {"u1", "u2"}

EmptyMap == [x \in {} |-> 0]

\* Map.prototype.set
MapSet(m, k, v) == [x \in (DOMAIN m) \cup {k} |-> IF x = k THEN v ELSE m[x]]

Min(a, b) == IF a <= b THEN a ELSE b

(***************************************************************************)
(* Rate limiting middleware                                                 *)
(***************************************************************************)
\* limit.count >= 100, with the comparison off by one (a faulty variant of OverLimit)
OverLimit_OffByOne(limit) == limit.count > RATE_LIMIT_MAX

\* limit.count >= 100
OverLimit(limit) == limit.count >= RATE_LIMIT_MAX

\* limit && limit.resetAt > now, with the boundary instant still inside the
\* window (a faulty variant of InWindow)
InWindow_Inclusive(rl, ip, t) == ip \in DOMAIN rl /\ rl[ip].resetAt >= t

\* limit && limit.resetAt > now
InWindow(rl, ip, t) == ip \in DOMAIN rl /\ rl[ip].resetAt > t

\* the denied request counted too: limit.count++ moved above the comparison
\* (a faulty variant of RateLimit)
RateLimit_CountDenied(rl, ip, t) ==
    IF InWindow(rl, ip, t)
    THEN [allow |-> ~OverLimit(rl[ip]), rl |-> [rl EXCEPT ![ip].count = @ + 1]]
    ELSE [allow |-> TRUE,
          rl |-> MapSet(rl, ip, [count |-> 1, resetAt |-> t + WINDOW_MS])]

\* the entry written back from a copy read before another request's
\* increment, as if a suspension point stood between rateLimiter.get and
\* limit.count++: every second increment of a window is lost (a faulty
\* variant of RateLimit)
RateLimit_LostIncrement(rl, ip, t) ==
    IF InWindow(rl, ip, t)
    THEN IF OverLimit(rl[ip])
         THEN [allow |-> FALSE, rl |-> rl]
         ELSE [allow |-> TRUE,
               rl |-> [rl EXCEPT ![ip].count = IF @ % 2 = 1 THEN @ ELSE @ + 1]]
    ELSE [allow |-> TRUE,
          rl |-> MapSet(rl, ip, [count |-> 1, resetAt |-> t + WINDOW_MS])]

\* rateLimiter.set(ip, { count: 0, ... }): the request that opens a window
\* not counted (a faulty variant of RateLimit)
RateLimit_ZeroStart(rl, ip, t) ==
    IF InWindow(rl, ip, t)
    THEN IF OverLimit(rl[ip])
         THEN [allow |-> FALSE, rl |-> rl]
         ELSE [allow |-> TRUE, rl |-> [rl EXCEPT ![ip].count = @ + 1]]
    ELSE [allow |-> TRUE,
          rl |-> MapSet(rl, ip, [count |-> 0, resetAt |-> t + WINDOW_MS])]

\* the middleware body: [allow, rl] is whether next() runs and the map after
RateLimit(rl, ip, t) ==
    IF InWindow(rl, ip, t)
    THEN IF OverLimit(rl[ip])
         THEN [allow |-> FALSE, rl |-> rl]
         ELSE [allow |-> TRUE, rl |-> [rl EXCEPT ![ip].count = @ + 1]]
    ELSE [allow |-> TRUE,
          rl |-> MapSet(rl, ip, [count |-> 1, resetAt |-> t + WINDOW_MS])]

\* History of the windows as the specification counts them: a window of ip
\* starts with the first request at or after the end of the previous one.
WindowAfter(w, ip, t, allowed) ==
    IF ip \in DOMAIN w /\ t < w[ip].start + WINDOW_MS
    THEN [w EXCEPT ![ip].admits = @ + (IF allowed THEN 1 ELSE 0),
                   ![ip].denied = @ \/ ~allowed]
    ELSE MapSet(w, ip, [start |-> t,
                        admits |-> IF allowed THEN 1 ELSE 0,
                        denied |-> ~allowed])

\* what the last request was and how it was answered
Response(status, route, ip, user, sid, body) ==
    [status |-> status, route |-> route, ip |-> ip, user |-> user, sid |-> sid,
     body |-> body]

NoResponse == Response(0, "", "", "", "", <<>>)

\* Date.now() moves on
Tick ==
    /\ now + TickMs <= MaxNow
    /\ now' = now + TickMs
    /\ UNCHANGED <<rlVars, resp, reqs, dbVars, turns, hubVars>>

\* POST /api/auth/logout: an unprotected /api route, the rate limiter and a
\* handler without effects
Logout(ip) ==
    LET r == RateLimit(rateLimiter, ip, now) IN
    /\ rateLimiter' = r.rl
    /\ window' = WindowAfter(window, ip, now, r.allow)
    /\ resp' = Response(IF r.allow THEN 200 ELSE 429, "logout", ip, "", "", <<>>)
    /\ UNCHANGED <<now, reqs, dbVars, turns, hubVars>>

(***************************************************************************)
(* The model stream as bytes.  ASCII bytes stand for themselves; LEAD and   *)
(* CONT are the two bytes of one two-byte UTF-8 character.                  *)
(***************************************************************************)
NL == "\n"
LEAD == "0xC3"
CONT == "0xA9"
EACUTE == "U+00E9"
REPLACEMENT == "U+FFFD"

RECURSIVE Utf8Decode(_, _, _)
\* the UTF-8 decoder of TextDecoder: pending is TRUE when a lead byte waits
\* for its continuation byte
Utf8Decode(pending, bytes, acc) ==
    IF bytes = <<>> THEN [text |-> acc, pending |-> pending]
    ELSE LET b == Head(bytes) IN
         IF pending
         THEN IF b = CONT
              THEN Utf8Decode(FALSE, Tail(bytes), Append(acc, EACUTE))
              ELSE \* malformed: U+FFFD, and b is decoded again
                   Utf8Decode(FALSE, bytes, Append(acc, REPLACEMENT))
         ELSE IF b = LEAD THEN Utf8Decode(TRUE, Tail(bytes), acc)
              ELSE IF b = CONT
                   THEN Utf8Decode(FALSE, Tail(bytes), Append(acc, REPLACEMENT))
                   ELSE Utf8Decode(FALSE, Tail(bytes), Append(acc, b))

\* decoder.decode(value) without {stream: true}: an incomplete character at
\* the end of the chunk is flushed as U+FFFD (a faulty variant of DecoderDecode)
DecoderDecode_NoStream(pending, value) ==
    LET d == Utf8Decode(FALSE, value, <<>>) IN
    [text |-> IF d.pending THEN Append(d.text, REPLACEMENT) ELSE d.text,
     pending |-> FALSE]

\* decoder.decode(value, { stream: true })
DecoderDecode(pending, value) == Utf8Decode(pending, value, <<>>)

RECURSIVE SplitNL(_, _, _)
\* buffer.split('\n')
SplitNL(s, cur, acc) ==
    IF s = <<>> THEN Append(acc, cur)
    ELSE IF Head(s) = NL
         THEN SplitNL(Tail(s), <<>>, Append(acc, cur))
         ELSE SplitNL(Tail(s), Append(cur, Head(s)), acc)

\* buffer = lines.pop() || '' dropped: the partial line is not kept (a
\* faulty variant of LinesPop)
LinesPop_Dropped(lines) == <<>>

\* lines.pop() || ''
LinesPop(lines) == lines[Len(lines)]

DATA_PREFIX == <<"d", "a", "t", "a", ":", " ">>

Whitespace == {" ", NL}

\* line.trim(), as a truth value
TrimTruthy(line) == \E i \in 1..Len(line) : line[i] \notin Whitespace

\* line.startsWith('data: ')
StartsWithData(line) ==
    /\ Len(line) >= Len(DATA_PREFIX)
    /\ SubSeq(line, 1, Len(DATA_PREFIX)) = DATA_PREFIX

\* line.slice(6)
Slice6(line) == SubSeq(line, Len(DATA_PREFIX) + 1, Len(line))

(***************************************************************************)
(* JSON payloads are written in a small language: "{" p1 "," ... "," pn "}" *)
(* is an object whose candidates[0].content.parts are p1..pn; a part made of *)
(* text characters (possibly none) is a text part, the part "F" is a         *)
(* functionCall (a tool request, no text), and everything else is not JSON.  *)
(***************************************************************************)
TextChars == {"a", EACUTE, REPLACEMENT}
TOOLCALL == "F"
PART_SEP == ","

RECURSIVE SplitParts(_, _, _)
\* the elements of content.parts
SplitParts(s, cur, acc) ==
    IF s = <<>> THEN Append(acc, cur)
    ELSE IF Head(s) = PART_SEP
         THEN SplitParts(Tail(s), <<>>, Append(acc, cur))
         ELSE SplitParts(Tail(s), Append(cur, Head(s)), acc)

\* a part { text }
IsTextPart(part) == \A i \in 1..Len(part) : part[i] \in TextChars

RECURSIVE PartsText(_)
\* the text of all the parts, in order
PartsText(parts) ==
    IF parts = <<>> THEN <<>>
    ELSE (IF IsTextPart(Head(parts)) THEN Head(parts) ELSE <<>>)
             \o PartsText(Tail(parts))

\* JSON.parse(data) and parsed.candidates?.[0]?.content?.parts?.[0]?.text;
\* all is the text of every part of the frame
JsonText(data) ==
    IF Len(data) >= 2 /\ data[1] = "{" /\ data[Len(data)] = "}"
    THEN LET parts == SplitParts(SubSeq(data, 2, Len(data) - 1), <<>>, <<>>) IN
         IF \A i \in 1..Len(parts) : IsTextPart(parts[i]) \/ parts[i] = <<TOOLCALL>>
         THEN [ok |-> TRUE,
               text |-> IF IsTextPart(parts[1]) THEN parts[1] ELSE <<>>,
               all |-> PartsText(parts)]
         ELSE [ok |-> FALSE, text |-> <<>>, all |-> <<>>]
    ELSE [ok |-> FALSE, text |-> <<>>, all |-> <<>>]

\* JSON.stringify({ error: error.message })
ErrorEvent == <<"{", "error", "}">>

RECURSIVE ProcessLines(_, _, _)
\* for (const line of lines): forward each data line, accumulate its text
ProcessLines(lines, out, full) ==
    IF lines = <<>> THEN [out |-> out, full |-> full]
    ELSE LET line == Head(lines) IN
         IF TrimTruthy(line) /\ StartsWithData(line)
         THEN LET data == Slice6(line)
                  p == JsonText(data)
              IN ProcessLines(Tail(lines), Append(out, data),
                              IF p.ok THEN full \o p.text ELSE full)
         ELSE ProcessLines(Tail(lines), out, full)

\* one iteration of while (true) on a chunk value: the locals of the
\* callback after it
ProcessChunk(t, value) ==
    LET d == DecoderDecode(t.pending, value)
        lines == SplitNL(t.buffer \o d.text, <<>>, <<>>)
        r == ProcessLines(SubSeq(lines, 1, Len(lines) - 1), t.out, t.fullResponse)
    IN [t EXCEPT !.pending = d.pending,
                 !.buffer = LinesPop(lines),
                 !.out = r.out,
                 !.fullResponse = r.full,
                 !.pos = @ + Len(value)]

\* frames a backend may send
FrameTextA == DATA_PREFIX \o <<"{", "a", "}", NL>>
FrameTextE == DATA_PREFIX \o <<"{", LEAD, CONT, "}", NL>>
FrameBad == DATA_PREFIX \o <<"{", "a", NL>>
FrameTool == DATA_PREFIX \o <<"{", TOOLCALL, "}", NL>>
FrameComment == <<":", "a", NL>>
FrameBlank == <<" ", NL>>
FrameTail == DATA_PREFIX \o <<"{", "a", "}">>
FrameCut == DATA_PREFIX \o <<"{", LEAD>>
FrameParts == DATA_PREFIX \o <<"{", "a", PART_SEP, "a", "}", NL>>
Frames == {FrameTextA, FrameTextE, FrameBad, FrameTool, FrameComment,
           FrameBlank, FrameTail, FrameCut, FrameParts}

\* a stream is at most MaxFrames frames; a read returns at most MaxChunk bytes
MaxFrames == 2
MaxChunk == 24

RECURSIVE StreamsOf(_)
StreamsOf(k) ==
    IF k = 0 THEN {<<>>}
    ELSE LET S == StreamsOf(k - 1) IN S \cup {s \o f : s \in S, f \in Frames}

(***************************************************************************)
(* The streamSSE callback of chat/completions                               *)
(***************************************************************************)
\* the callback's locals; sid = "" is a request without sessionId
Turn(user, sid, stream) ==
    [pc |-> "fetch", user |-> user, sid |-> sid, stream |-> stream, pos |-> 0,
     pending |-> FALSE, buffer |-> <<>>, fullResponse |-> <<>>, out |-> <<>>,
     calls |-> 0, appended |-> 0]

Message(sid, role, content, at) ==
    [session_id |-> sid, role |-> role, content |-> content, created_at |-> at]

\* await fetch(...streamGenerateContent) resolves with a body
TurnFetch(t) ==
    /\ turns[t].pc = "fetch"
    /\ turns' = [turns EXCEPT ![t].pc = "read", ![t].calls = @ + 1]
    /\ UNCHANGED <<now, rlVars, resp, reqs, dbVars, hubVars>>

\* catch (error): the error event is written and the callback returns
Failed(t) == [t EXCEPT !.pc = "failed", !.out = Append(@, ErrorEvent)]

\* fetch rejects, or the response has no body ('No stream')
TurnFetchFail(t) ==
    /\ turns[t].pc = "fetch"
    /\ turns' = [turns EXCEPT ![t] = Failed([turns[t] EXCEPT !.calls = @ + 1])]
    /\ UNCHANGED <<now, rlVars, resp, reqs, dbVars, hubVars>>

\* the assistant row inserted inside the read loop, once per chunk that
\* brought text (a faulty variant of TurnReadChunk)
TurnReadChunk_SavePerChunk(t, n) ==
    LET after == ProcessChunk(turns[t],
                     SubSeq(turns[t].stream, turns[t].pos + 1, turns[t].pos + n))
        delta == SubSeq(after.fullResponse, Len(turns[t].fullResponse) + 1,
                        Len(after.fullResponse))
        save == turns[t].sid # "" /\ delta # <<>>
    IN /\ turns[t].pc = "read"
       /\ n >= 1
       /\ turns[t].pos + n <= Len(turns[t].stream)
       /\ turns' = [turns EXCEPT ![t] =
              [after EXCEPT !.appended = IF save THEN @ + 1 ELSE @]]
       /\ db_messages' = IF save
                         THEN Append(db_messages,
                                     Message(turns[t].sid, "assistant", delta, now))
                         ELSE db_messages
       /\ UNCHANGED <<now, rlVars, resp, reqs, db_sessions, dels, uuids, hubVars>>

\* reader.read() returns the next n bytes
TurnReadChunk(t, n) ==
    /\ turns[t].pc = "read"
    /\ n >= 1
    /\ turns[t].pos + n <= Len(turns[t].stream)
    /\ turns' = [turns EXCEPT ![t] =
           ProcessChunk(turns[t],
                        SubSeq(turns[t].stream, turns[t].pos + 1, turns[t].pos + n))]
    /\ UNCHANGED <<now, rlVars, resp, reqs, dbVars, hubVars>>

\* if (sessionId): an empty reply is saved too (a faulty variant of
\* ShouldSave)
ShouldSave_SessionOnly(t) == t.sid # ""

\* if (sessionId && fullResponse)
ShouldSave(t) == t.sid # "" /\ t.fullResponse # <<>>

\* if (done) break missing: the loop goes on to the next reader.read() after
\* the end of the stream (a faulty variant of TurnReadDone)
TurnReadDone_KeepsReading(t) ==
    /\ turns[t].pc = "read"
    /\ turns[t].pos = Len(turns[t].stream)
    /\ turns' = [turns EXCEPT ![t].pc = "read"]
    /\ UNCHANGED <<now, rlVars, resp, reqs, dbVars, hubVars>>

\* reader.read() returns done: break, then save or return
TurnReadDone(t) ==
    /\ turns[t].pc = "read"
    /\ turns[t].pos = Len(turns[t].stream)
    /\ turns' = [turns EXCEPT ![t].pc = IF ShouldSave(turns[t]) THEN "save" ELSE "done"]
    /\ UNCHANGED <<now, rlVars, resp, reqs, dbVars, hubVars>>

\* the text accumulated so far saved when the read rejects, as if the
\* insert stood in a finally block (a faulty variant of TurnReadFail)
TurnReadFail_SavePartial(t) ==
    /\ turns[t].pc = "read"
    /\ turns' = [turns EXCEPT ![t] =
           [Failed(turns[t]) EXCEPT !.appended =
                IF ShouldSave(turns[t]) THEN @ + 1 ELSE @]]
    /\ db_messages' = IF ShouldSave(turns[t])
                      THEN Append(db_messages,
                               Message(turns[t].sid, "assistant",
                                       turns[t].fullResponse, now))
                      ELSE db_messages
    /\ UNCHANGED <<now, rlVars, resp, reqs, db_sessions, dels, uuids, hubVars>>

\* reader.read() rejects
TurnReadFail(t) ==
    /\ turns[t].pc = "read"
    /\ turns' = [turns EXCEPT ![t] = Failed(turns[t])]
    /\ UNCHANGED <<now, rlVars, resp, reqs, dbVars, hubVars>>

\* the assistant row inserted as soon as some text has been accumulated,
\* while the stream is still being read and forwarded (a faulty variant of
\* TurnSave)
TurnSave_Early(t) ==
    /\ turns[t].pc \in {"read", "save"}
    /\ turns[t].appended = 0
    /\ ShouldSave(turns[t])
    /\ db_messages' = Append(db_messages,
           Message(turns[t].sid, "assistant", turns[t].fullResponse, now))
    /\ turns' = [turns EXCEPT ![t].pc = IF @ = "save" THEN "touch" ELSE @,
                              ![t].appended = @ + 1]
    /\ UNCHANGED <<now, rlVars, resp, reqs, db_sessions, dels, uuids, hubVars>>

\* INSERT INTO messages ... 'assistant', fullResponse
TurnSave(t) ==
    /\ turns[t].pc = "save"
    /\ db_messages' = Append(db_messages,
           Message(turns[t].sid, "assistant", turns[t].fullResponse, now))
    /\ turns' = [turns EXCEPT ![t].pc = "touch", ![t].appended = @ + 1]
    /\ UNCHANGED <<now, rlVars, resp, reqs, db_sessions, dels, uuids, hubVars>>

\* UPDATE sessions SET updated_at = ? WHERE id = ?
TurnTouch(t) ==
    /\ turns[t].pc = "touch"
    /\ db_sessions' = [s \in DOMAIN db_sessions |->
           IF s = turns[t].sid THEN [db_sessions[s] EXCEPT !.updated_at = now]
           ELSE db_sessions[s]]
    /\ turns' = [turns EXCEPT ![t].pc = "done"]
    /\ UNCHANGED <<now, rlVars, resp, reqs, db_messages, dels, uuids, hubVars>>

Session(user, at) == [user_id |-> user, created_at |-> at, updated_at |-> at]

Socks == {"w1", "w2", "w3"}

NoPub == [n |-> 0, socket |-> "", sessionId |-> "", data |-> "", ok |-> FALSE]

\* new Map(), no socket accepted yet
HubInit ==
    /\ sessions = <<>>
    /\ sockets = [w \in Socks |-> "free"]
    /\ inbox = [w \in Socks |-> <<>>]
    /\ lastPub = NoPub

(***************************************************************************)
(* SpecStream: one turn whose model call has resolved, its stream read in   *)
(* chunks of every size                                                     *)
(***************************************************************************)
InitStream ==
    /\ now = 0
    /\ rateLimiter = MapSet(EmptyMap, "ip1", [count |-> 2, resetAt |-> WINDOW_MS])
    /\ window = MapSet(EmptyMap, "ip1", [start |-> 0, admits |-> 2, denied |-> FALSE])
    /\ resp = Response(200, "chat", "ip1", "u1", "s1", <<>>)
    /\ reqs = 2
    /\ db_sessions = MapSet(EmptyMap, "s1", Session("u1", 0))
    /\ db_messages = <<Message("s1", "user", <<"q">>, 0)>>
    /\ \E s \in StreamsOf(MaxFrames) :
           turns = MapSet(EmptyMap, 1,
                          [Turn("u1", "s1", s) EXCEPT !.pc = "read", !.calls = 1])
    /\ dels = {}
    /\ uuids = 1
    /\ HubInit

NextStream ==
    \/ Tick
    \/ \E n \in 1..MaxChunk : TurnReadChunk(1, n)
    \/ TurnReadDone(1)
    \/ TurnReadFail(1)
    \/ TurnSave(1)
    \/ TurnTouch(1)

SpecStream == InitStream /\ [][NextStream]_vars

\* the locals of a callback that has read nothing yet
Fresh(t) == [t EXCEPT !.pending = FALSE, !.buffer = <<>>, !.fullResponse = <<>>,
                      !.out = <<>>, !.pos = 0]

\* C7: whatever chunks the bytes read so far arrived in (1-byte chunks
\* included), the events forwarded, the text accumulated and the partial
\* line kept are those of the same bytes arriving as one contiguous chunk.
C7_ChunkingInvariant ==
    \A t \in DOMAIN turns :
        turns[t].pc = "read" =>
            LET whole == ProcessChunk(Fresh(turns[t]),
                                      SubSeq(turns[t].stream, 1, turns[t].pos))
            IN /\ turns[t].out = whole.out
               /\ turns[t].fullResponse = whole.fullResponse
               /\ turns[t].buffer = whole.buffer
               /\ turns[t].pending = whole.pending

\* a stream whose two-byte character and whose "data: " prefix were both
\* split by chunk boundaries, forwarded with its text
C7_Witness ==
    \E t \in DOMAIN turns :
        /\ turns[t].pc = "read"
        /\ turns[t].stream = FrameTextE \o FrameTextA
        /\ turns[t].pos = Len(turns[t].stream)
        /\ turns[t].fullResponse = <<EACUTE, "a">>
        /\ Len(turns[t].out) = 2

\* the events the callback forwards for a whole stream
EventsOf(stream) ==
    ProcessChunk([Turn("", "", stream) EXCEPT !.pc = "read"], stream).out

C19_MalformedFrameSkipped ==
    \A t \in DOMAIN turns :
        \A i \in 1..Len(turns[t].out) :
            turns[t].out[i] = ErrorEvent \/ JsonText(turns[t].out[i]).ok

RECURSIVE AllText(_)
\* the text of every part of every event, in order
AllText(out) ==
    IF out = <<>> THEN <<>>
    ELSE JsonText(Head(out)).all \o AllText(Tail(out))

\* C20: the content of the assistant message a turn has stored is the text
\* of every part of every frame forwarded during the turn, in order.
C20_MessageIsAllText ==
    \A i \in 1..Len(db_messages) :
        db_messages[i].role = "assistant" =>
            \E t \in DOMAIN turns :
                /\ turns[t].appended = 1
                /\ turns[t].sid = db_messages[i].session_id
                /\ db_messages[i].content = AllText(turns[t].out)

InitRL ==
    /\ now = 0
    /\ rateLimiter = EmptyMap
    /\ window = EmptyMap
    /\ resp = NoResponse
    /\ reqs = 0
    /\ db_sessions = EmptyMap
    /\ db_messages = <<>>
    /\ turns = EmptyMap
    /\ dels = {}
    /\ uuids = 0
    /\ HubInit

NextRL == Tick \/ \E ip \in IPs : Logout(ip)

SpecRL == InitRL /\ [][NextRL]_vars

(***************************************************************************)
(* C4                                                                       *)
(***************************************************************************)
\* C4: within one window of an identity exactly RATE_LIMIT_MAX requests are
\* admitted: never more than the quota, a request is denied only once the
\* quota is used up, and the request that opens a window (the first one of
\* the identity, or the first at or after the previous window's reset time)
\* is admitted.
C4_QuotaPerWindow ==
    \A ip \in DOMAIN window :
        /\ window[ip].admits <= RATE_LIMIT_MAX
        /\ window[ip].admits >= 1
        /\ window[ip].denied => window[ip].admits = RATE_LIMIT_MAX

\* a second window of an identity, opened exactly at the reset time of its
\* first one, filled to the quota and then denying
C4_Witness ==
    \E ip \in DOMAIN window :
        /\ window[ip].start = WINDOW_MS
        /\ window[ip].denied
        /\ window[ip].admits = RATE_LIMIT_MAX
        /\ resp.status = 429

(***************************************************************************)
(* ChatDurableObject: one durable object, named by the session id HubSession *)
(***************************************************************************)
HubSession == "s1"

\* url.searchParams.get('userId') || 'anonymous'
HubUsers == {"anonymous"}

\* the frames of event.data: two JSON objects and one text that is not JSON
WsFrames == {"m1", "m2", "bad"}

\* the frame used without JSON.parse: every frame counts as parsed (a faulty
\* variant of WsJsonOk)
WsJsonOk_Always(data) == TRUE

\* JSON.parse(event.data.toString()) returns
WsJsonOk(data) == data # "bad"

\* at most MaxPub inbound frames are handled
MaxPub == 2

Joined(w) == \E i \in 1..Len(sessions) : sessions[i].socket = w

\* JSON.stringify({ type: 'message', ...data, timestamp: Date.now() })
WsEvent(data, t) == [type |-> "message", data |-> data, timestamp |-> t]

RECURSIVE ForEachSend_Prepend(_, _, _, _, _)
\* the sends of one publish deferred behind a suspension point, so that an
\* event overtakes the ones already queued for the socket (a faulty variant
\* of ForEachSend)
ForEachSend_Prepend(entries, sid, ev, socks, ib) ==
    IF entries = <<>> THEN ib
    ELSE LET s == Head(entries) IN
         IF s.sessionId = sid
         THEN IF socks[s.socket] = "closed"
              THEN ib
              ELSE ForEachSend_Prepend(Tail(entries), sid, ev, socks,
                                       [ib EXCEPT ![s.socket] = <<ev>> \o @])
         ELSE ForEachSend_Prepend(Tail(entries), sid, ev, socks, ib)

RECURSIVE ForEachSend_NoFilter(_, _, _, _, _)
\* the forEach without if (s.sessionId === sessionId): every socket of the
\* object is written to (a faulty variant of ForEachSend)
ForEachSend_NoFilter(entries, sid, ev, socks, ib) ==
    IF entries = <<>> THEN ib
    ELSE LET s == Head(entries) IN
         IF socks[s.socket] = "closed"
         THEN ib
         ELSE ForEachSend_NoFilter(Tail(entries), sid, ev, socks,
                                   [ib EXCEPT ![s.socket] = Append(@, ev)])

RECURSIVE ForEachSend(_, _, _, _, _)
\* this.sessions.forEach(...): the sends in Map order; socket.send throws on
\* a socket whose peer is gone, which ends the forEach
ForEachSend(entries, sid, ev, socks, ib) ==
    IF entries = <<>> THEN ib
    ELSE LET s == Head(entries) IN
         IF s.sessionId = sid
         THEN IF socks[s.socket] = "closed"
              THEN ib
              ELSE ForEachSend(Tail(entries), sid, ev, socks,
                               [ib EXCEPT ![s.socket] = Append(@, ev)])
         ELSE ForEachSend(Tail(entries), sid, ev, socks, ib)

\* fetch(request) with ?sessionId=sid: accept the server socket and register
\* it under the session id of the request URL
WsConnectAs(w, user, sid) ==
    /\ sockets[w] = "free"
    /\ sockets' = [sockets EXCEPT ![w] = "open"]
    /\ sessions' = Append(sessions,
           [socket |-> w, userId |-> user, sessionId |-> sid])
    /\ UNCHANGED <<now, rlVars, resp, reqs, dbVars, turns, inbox, lastPub>>

\* fetch(request) reached through /api/chat/ws?sessionId=HubSession
WsConnect(w, user) == WsConnectAs(w, user, HubSession)

\* the sessionId captured by the listeners of socket w
SessionOf(w) ==
    LET i == CHOOSE i \in 1..Len(sessions) : sessions[i].socket = w
    IN sessions[i].sessionId

\* the 'message' listener of socket w
WsMessage(w, data) ==
    /\ sockets[w] = "open"
    /\ Joined(w)
    /\ lastPub.n < MaxPub
    /\ lastPub' = [n |-> lastPub.n + 1, socket |-> w, sessionId |-> SessionOf(w),
                   data |-> data, ok |-> WsJsonOk(data)]
    /\ inbox' = IF WsJsonOk(data)
                THEN ForEachSend(sessions, SessionOf(w), WsEvent(data, now),
                                 sockets, inbox)
                ELSE inbox
    /\ UNCHANGED <<now, rlVars, resp, reqs, dbVars, turns, sessions, sockets>>

\* the peer of socket w goes away; the 'close' event has not been handled yet
WsPeerClose(w) ==
    /\ sockets[w] = "open"
    /\ sockets' = [sockets EXCEPT ![w] = "closed"]
    /\ UNCHANGED <<now, rlVars, resp, reqs, dbVars, turns, sessions, inbox, lastPub>>

\* this.sessions.clear() in the 'close' listener: every connection is
\* removed with the one that closed (a faulty variant of WsClose)
WsClose_All(w) ==
    /\ sockets[w] = "closed"
    /\ Joined(w)
    /\ sessions' = <<>>
    /\ UNCHANGED <<now, rlVars, resp, reqs, dbVars, turns, sockets, inbox, lastPub>>

\* the 'close' listener of socket w: this.sessions.delete(server)
WsClose(w) ==
    /\ sockets[w] = "closed"
    /\ Joined(w)
    /\ sessions' = SelectSeq(sessions, LAMBDA s : s.socket # w)
    /\ UNCHANGED <<now, rlVars, resp, reqs, dbVars, turns, sockets, inbox, lastPub>>

InitHub ==
    /\ now = 0
    /\ rateLimiter = EmptyMap
    /\ window = EmptyMap
    /\ resp = NoResponse
    /\ reqs = 0
    /\ db_sessions = EmptyMap
    /\ db_messages = <<>>
    /\ turns = EmptyMap
    /\ dels = {}
    /\ uuids = 0
    /\ HubInit

NextHub ==
    \/ Tick
    \/ \E w \in Socks, u \in HubUsers : WsConnect(w, u)
    \/ \E w \in Socks, d \in WsFrames : WsMessage(w, d)
    \/ \E w \in Socks : WsPeerClose(w)
    \/ \E w \in Socks : WsClose(w)

SpecHub == InitHub /\ [][NextHub]_vars

\* C3: when an event is published, every joined connection of the session
\* whose own write does not throw receives it, wherever the connections whose
\* write throws stand in the iteration order.
C3_DeliveredDespiteThrow ==
    [][(lastPub'.n = lastPub.n + 1 /\ lastPub'.ok) =>
          \A i \in 1..Len(sessions) :
              (sessions[i].sessionId = lastPub'.sessionId
               /\ sockets[sessions[i].socket] = "open") =>
                  inbox'[sessions[i].socket] =
                      Append(inbox[sessions[i].socket],
                             WsEvent(lastPub'.data, now))]_vars

\* C13: what a connection has received only grows at its end, and only by
\* the event of the publish being handled: the events a connection receives
\* arrive in the order they were published, whichever sockets the inbound
\* messages came from.
C13_FifoPerConnection ==
    [][\A w \in Socks :
          \/ inbox'[w] = inbox[w]
          \/ /\ lastPub'.n = lastPub.n + 1
             /\ lastPub'.ok
             /\ inbox'[w] = Append(inbox[w], WsEvent(lastPub'.data, now))]_vars

\* a connection that received two different events, the second one published
\* by another connection
C13_Witness ==
    \E w \in Socks :
        /\ Len(inbox[w]) = 2
        /\ inbox[w][1].data = "m1"
        /\ inbox[w][2].data = "m2"
        /\ lastPub.socket # w
        /\ lastPub.data = "m2"

\* the write of a publish to entry i throws: the first entry of the session,
\* in Map order, whose peer is gone
WriteFails(i, sid) ==
    /\ sessions[i].sessionId = sid
    /\ sockets[sessions[i].socket] = "closed"
    /\ \A j \in 1..(i - 1) :
           sessions[j].sessionId = sid => sockets[sessions[j].socket] = "open"

\* C16: a connection whose write fails during a publish is no longer a
\* member of the hub after it.
C16_FailedWriteDropsConnection ==
    [][(lastPub'.n = lastPub.n + 1 /\ lastPub'.ok) =>
          \A i \in 1..Len(sessions) :
              WriteFails(i, lastPub'.sessionId) =>
                  \A j \in 1..Len(sessions') :
                      sessions'[j].socket # sessions[i].socket]_vars

(***************************************************************************)
(* SpecHubMixed: one durable object whose fetch is handed requests with      *)
(* different sessionId parameters (fetch reads the parameter from the URL,   *)
(* whatever name the object was addressed by)                                *)
(***************************************************************************)
\* url.searchParams.get('sessionId') || crypto.randomUUID()
HubSessionIds == {HubSession, "s2"}

NextHubMixed ==
    \/ Tick
    \/ \E w \in Socks, u \in HubUsers, sid \in HubSessionIds : WsConnectAs(w, u, sid)
    \/ \E w \in Socks, d \in WsFrames : WsMessage(w, d)
    \/ \E w \in Socks : WsPeerClose(w)
    \/ \E w \in Socks : WsClose(w)

SpecHubMixed == InitHub /\ [][NextHubMixed]_vars

\* C21: a socket has at most one entry, hence one session id, in the hub; a
\* publish on a connection of session S changes what a connection has
\* received only if that connection is registered with session id S.
C21_DeliveredWithinSession ==
    /\ [](\A i, j \in 1..Len(sessions) :
              sessions[i].socket = sessions[j].socket => i = j)
    /\ [][\A i \in 1..Len(sessions) :
              inbox'[sessions[i].socket] # inbox[sessions[i].socket] =>
                  /\ lastPub'.n = lastPub.n + 1
                  /\ sessions[i].sessionId = lastPub'.sessionId
                  /\ \E k \in 1..Len(sessions) :
                         /\ sessions[k].socket = lastPub'.socket
                         /\ sessions[k].sessionId = lastPub'.sessionId]_vars

\* two connections of one session hold an event published by one of them,
\* and an open connection of another session in the same object, registered
\* before them, holds nothing
C21_Witness ==
    /\ Len(sessions) = 3
    /\ sessions[1].sessionId = "s2"
    /\ sessions[2].sessionId = HubSession
    /\ sessions[3].sessionId = HubSession
    /\ sockets[sessions[1].socket] = "open"
    /\ inbox[sessions[1].socket] = <<>>
    /\ inbox[sessions[2].socket] # <<>>
    /\ inbox[sessions[3].socket] = inbox[sessions[2].socket]
    /\ lastPub.sessionId = HubSession

(***************************************************************************)
(* Auth middleware and the protected routes                                 *)
(***************************************************************************)
\* Authorization headers: none, a token signed with JWT_SECRET for each
\* user, and a token with a signature that does not verify
AuthHeaders ==
    {[scheme |-> "none", sub |-> "", signed |-> FALSE],
     [scheme |-> "Bearer", sub |-> "u1", signed |-> FALSE]}
    \cup {[scheme |-> "Bearer", sub |-> u, signed |-> TRUE] : u \in Users}

\* authHeader?.startsWith('Bearer ') and verify(token, JWT_SECRET)
Auth(hdr) ==
    IF hdr.scheme # "Bearer" THEN [ok |-> FALSE, userId |-> ""]
    ELSE IF hdr.signed THEN [ok |-> TRUE, userId |-> hdr.sub]
         ELSE [ok |-> FALSE, userId |-> ""]

\* the two middlewares registered in the opposite order: auth answers 401
\* before the rate limiter has run (a faulty variant of Admission)
Admission_AuthFirst(ip, hdr) ==
    LET a == Auth(hdr)
        r == RateLimit(rateLimiter, ip, now)
    IN IF ~a.ok
       THEN [status |-> 401, userId |-> "", rl |-> rateLimiter, allow |-> TRUE]
       ELSE [status |-> IF r.allow THEN 200 ELSE 429, userId |-> a.userId,
             rl |-> r.rl, allow |-> r.allow]

\* the two middlewares of a request to /api/protected/*: the status the
\* request is answered with unless its handler runs (200), and the map after
Admission(ip, hdr) ==
    LET r == RateLimit(rateLimiter, ip, now) IN
    IF ~r.allow
    THEN [status |-> 429, userId |-> "", rl |-> r.rl, allow |-> FALSE]
    ELSE LET a == Auth(hdr) IN
         [status |-> IF a.ok THEN 200 ELSE 401, userId |-> a.userId,
          rl |-> r.rl, allow |-> TRUE]

\* at most MaxReqs requests, MaxTurns of them admitted chat completions, and
\* MaxSessions sessions are created; a read of the model stream returns
\* MainChunk bytes
MaxReqs == 2
MaxTurns == 2
MaxSessions == 2
MainChunk == 16

MainIPs == {"ip1"}

\* crypto.randomUUID(): the n-th id generated
SessionId(n) == "s" \o ToString(n)

\* the session ids a client may send: none, the generated ones, and an id of
\* its own making
ClientSids == {SessionId(i) : i \in 1..uuids} \cup {"x1"}

UserMsgs == {<<"q">>}

MainStreams == {FrameTextA \o FrameTextE, FrameTool}

\* the rate limiter has run: what every request does before its answer
Served(ip, a) ==
    /\ reqs' = reqs + 1
    /\ rateLimiter' = a.rl
    /\ window' = WindowAfter(window, ip, now, a.allow)

\* c.json({ error }, 429 | 401)
Rejected(route, ip, a, sid) ==
    /\ resp' = Response(a.status, route, ip, "", "", <<>>)
    /\ UNCHANGED <<dbVars, turns>>

\* the rows of session sid in insertion order
History(msgs, sid) == SelectSeq(msgs, LAMBDA m : m.session_id = sid)

RECURSIVE OrderedBy(_, _)
\* ORDER BY created_at ASC over the rows at the indices S: every order of
\* the rows that is ascending in created_at (rows of equal created_at come
\* in an order SQL leaves open)
OrderedBy(rows, S) ==
    IF S = {} THEN {<<>>}
    ELSE LET first == {i \in S : \A j \in S : rows[i].created_at <= rows[j].created_at}
         IN UNION {{<<rows[i]>> \o r : r \in OrderedBy(rows, S \ {i})} : i \in first}

\* SELECT * FROM messages WHERE session_id = ? ORDER BY created_at ASC
SelectMessages(msgs, sid) ==
    LET rows == History(msgs, sid) IN OrderedBy(rows, 1..Len(rows))

\* POST /api/protected/chat/completions up to return streamSSE(...)
ChatSubmit(ip, hdr, sid, msg, stream) ==
    LET a == Admission(ip, hdr)
        t == Cardinality(DOMAIN turns) + 1
    IN /\ reqs < MaxReqs
       /\ Served(ip, a)
       /\ IF a.status # 200 THEN Rejected("chat", ip, a, sid)
          ELSE /\ t <= MaxTurns
               /\ db_messages' = IF sid # ""
                                 THEN Append(db_messages, Message(sid, "user", msg, now))
                                 ELSE db_messages
               /\ turns' = MapSet(turns, t, Turn(a.userId, sid, stream))
               /\ resp' = Response(200, "chat", ip, a.userId, sid, <<>>)
               /\ UNCHANGED <<db_sessions, dels, uuids>>
       /\ UNCHANGED <<now, hubVars>>

\* reader.read() returns the next chunk of the stream
TurnRead(t) ==
    /\ turns[t].pos < Len(turns[t].stream)
    /\ TurnReadChunk(t, Min(MainChunk, Len(turns[t].stream) - turns[t].pos))

\* POST /api/protected/sessions
SessionCreate(ip, hdr) ==
    LET a == Admission(ip, hdr)
        id == SessionId(uuids + 1)
    IN /\ reqs < MaxReqs
       /\ Served(ip, a)
       /\ IF a.status # 200 THEN Rejected("create", ip, a, "")
          ELSE /\ uuids < MaxSessions
               /\ uuids' = uuids + 1
               /\ db_sessions' = MapSet(db_sessions, id, Session(a.userId, now))
               /\ resp' = Response(200, "create", ip, a.userId, id, <<>>)
               /\ UNCHANGED <<db_messages, dels, turns>>
       /\ UNCHANGED <<now, hubVars>>

\* SELECT * FROM sessions WHERE id = ? AND user_id = ?
\* the SELECT without AND user_id = ?: any existing session matches (a faulty
\* variant of OwnedBy)
OwnedBy_AnyUser(sid, user) == sid \in DOMAIN db_sessions

OwnedBy(sid, user) == sid \in DOMAIN db_sessions /\ db_sessions[sid].user_id = user

\* GET /api/protected/sessions/:id
SessionGet(ip, hdr, sid) ==
    LET a == Admission(ip, hdr) IN
    /\ reqs < MaxReqs
    /\ Served(ip, a)
    /\ IF a.status # 200 THEN Rejected("get", ip, a, sid)
       ELSE /\ IF OwnedBy(sid, a.userId)
               THEN \E body \in SelectMessages(db_messages, sid) :
                        resp' = Response(200, "get", ip, a.userId, sid, body)
               ELSE resp' = Response(404, "get", ip, a.userId, sid, <<>>)
            /\ UNCHANGED <<dbVars, turns>>
    /\ UNCHANGED <<now, hubVars>>

\* DELETE /api/protected/sessions/:id, its first statement:
\* DELETE FROM sessions WHERE id = ? AND user_id = ?
SessionDelete(ip, hdr, sid) ==
    LET a == Admission(ip, hdr) IN
    /\ reqs < MaxReqs
    /\ Served(ip, a)
    /\ IF a.status # 200 THEN Rejected("delete", ip, a, sid)
       ELSE /\ db_sessions' = [s \in {x \in DOMAIN db_sessions : ~OwnedBy(x, a.userId) \/ x # sid}
                                  |-> db_sessions[s]]
            /\ dels' = dels \cup {[sid |-> sid, ip |-> ip, user |-> a.userId]}
            /\ resp' = Response(0, "delete", ip, a.userId, sid, <<>>)
            /\ UNCHANGED <<db_messages, uuids, turns>>
    /\ UNCHANGED <<now, hubVars>>

\* its second statement, DELETE FROM messages WHERE session_id = ?, and the
\* answer
SessionDeleteMessages(d) ==
    /\ d \in dels
    /\ db_messages' = SelectSeq(db_messages, LAMBDA m : m.session_id # d.sid)
    /\ dels' = dels \ {d}
    /\ resp' = Response(200, "delete", d.ip, d.user, d.sid, <<>>)
    /\ UNCHANGED <<now, rlVars, reqs, db_sessions, uuids, turns, hubVars>>

(***************************************************************************)
(* Requests end to end.  The same Next runs from three starting states:     *)
(*   Spec           a fresh isolate and an empty database;                  *)
(*   SpecNearQuota  an isolate that has served RATE_LIMIT_MAX - 1 requests  *)
(*                  of ip1 at time 0 (SpecRL reaches that limiter state),   *)
(*                  so that a denial is within reach of a few requests;     *)
(*   SpecHistory    a fresh isolate over a database that already holds the  *)
(*                  session SessionCreate inserts for u1 at time 0.         *)
(***************************************************************************)
InitIdle ==
    /\ now = 0
    /\ resp = NoResponse
    /\ reqs = 0
    /\ db_messages = <<>>
    /\ turns = EmptyMap
    /\ dels = {}
    /\ HubInit

Init ==
    /\ InitIdle
    /\ rateLimiter = EmptyMap
    /\ window = EmptyMap
    /\ db_sessions = EmptyMap
    /\ uuids = 0

InitNearQuota ==
    /\ InitIdle
    /\ rateLimiter = MapSet(EmptyMap, "ip1",
                            [count |-> RATE_LIMIT_MAX - 1, resetAt |-> WINDOW_MS])
    /\ window = MapSet(EmptyMap, "ip1",
                       [start |-> 0, admits |-> RATE_LIMIT_MAX - 1, denied |-> FALSE])
    /\ db_sessions = EmptyMap
    /\ uuids = 0

InitHistory ==
    /\ InitIdle
    /\ rateLimiter = EmptyMap
    /\ window = EmptyMap
    /\ db_sessions = MapSet(EmptyMap, SessionId(1), Session("u1", 0))
    /\ uuids = 1

Next ==
    \/ Tick
    \/ \E ip \in MainIPs, hdr \in AuthHeaders, sid \in ClientSids \cup {""},
          msg \in UserMsgs, stream \in MainStreams :
           ChatSubmit(ip, hdr, sid, msg, stream)
    \/ \E ip \in MainIPs, hdr \in AuthHeaders : SessionCreate(ip, hdr)
    \/ \E ip \in MainIPs, hdr \in AuthHeaders, sid \in ClientSids : SessionGet(ip, hdr, sid)
    \/ \E ip \in MainIPs, hdr \in AuthHeaders, sid \in ClientSids : SessionDelete(ip, hdr, sid)
    \/ \E d \in dels : SessionDeleteMessages(d)
    \/ \E t \in DOMAIN turns : TurnFetch(t)
    \/ \E t \in DOMAIN turns : TurnFetchFail(t)
    \/ \E t \in DOMAIN turns : TurnRead(t)
    \/ \E t \in DOMAIN turns : TurnReadDone(t)
    \/ \E t \in DOMAIN turns : TurnReadFail(t)
    \/ \E t \in DOMAIN turns : TurnSave(t)
    \/ \E t \in DOMAIN turns : TurnTouch(t)

Spec == Init /\ [][Next]_vars

SpecNearQuota == InitNearQuota /\ [][Next]_vars

SpecHistory == InitHistory /\ [][Next]_vars

(***************************************************************************)
(* Properties of Spec                                                       *)
(***************************************************************************)
\* the model stream of turn t has not ended
InFlight(t) == turns[t].pc \in {"fetch", "read"}

\* the callback of turn t has returned and the SSE response is closed
Returned(t) == turns[t].pc \in {"done", "failed"}

Last(q) == q[Len(q)]

\* the wire events { type: "done" } and { type: "done" } with the
\* bound-exceeded flag, which the worker never writes
DoneEvent == <<"{", "done", "}">>
BoundExceededEvent == <<"{", "done", "bound_exceeded", "}">>

\* C1: a chat/completions request that passed admission for a session with
\* a turn still in flight is answered TurnInProgress (409) and leaves the
\* stored messages unchanged.
C1_SecondSubmitRejected ==
    [][(/\ reqs' = reqs + 1
        /\ resp'.route = "chat"
        /\ resp'.status \notin {401, 429}
        /\ resp'.sid # ""
        /\ \E t \in DOMAIN turns : InFlight(t) /\ turns[t].sid = resp'.sid)
       => (resp'.status = 409 /\ db_messages' = db_messages)]_vars

\* C2: a read of a session's history returns its messages in append order.
C2_HistoryInAppendOrder ==
    [][(reqs' = reqs + 1 /\ resp'.route = "get" /\ resp'.status = 200)
       => resp'.body = History(db_messages, resp'.sid)]_vars

\* C5: when the callback of a turn has returned (Complete or Failed), the
\* last event written to its client is a terminal done or error event.
C5_TerminalEventWritten ==
    \A t \in DOMAIN turns :
        Returned(t) =>
            /\ turns[t].out # <<>>
            /\ Last(turns[t].out) \in {DoneEvent, BoundExceededEvent, ErrorEvent}

\* C6: a turn calls the model backend at most 3 times, and a turn whose
\* backend answered with a tool request ends with a TurnComplete event that
\* carries the bound-exceeded flag.
C6_ToolRoundsBounded ==
    \A t \in DOMAIN turns :
        /\ turns[t].calls <= 3
        /\ (turns[t].pc = "done" /\ turns[t].stream = FrameTool) =>
               /\ turns[t].out # <<>>
               /\ Last(turns[t].out) = BoundExceededEvent

C9_FailedTurn ==
    /\ [](\A t \in DOMAIN turns :
              turns[t].pc = "failed" =>
                  /\ turns[t].appended = 0
                  /\ turns[t].out # <<>>
                  /\ Last(turns[t].out) = ErrorEvent)
    /\ [][\A t \in DOMAIN turns :
              /\ (turns[t].pc # "failed" /\ turns'[t].pc = "failed") =>
                     /\ db_messages' = db_messages
                     /\ db_sessions' = db_sessions
                     /\ turns'[t].out = Append(turns[t].out, ErrorEvent)
              /\ turns[t].pc = "failed" => turns'[t] = turns[t]]_vars

\* a turn that failed after text had been accumulated, its user message
\* still stored and no assistant message beside it
C9_Witness ==
    \E t \in DOMAIN turns :
        /\ turns[t].pc = "failed"
        /\ turns[t].fullResponse # <<>>
        /\ turns[t].sid # ""
        /\ History(db_messages, turns[t].sid) # <<>>
        /\ \A i \in 1..Len(db_messages) : db_messages[i].role = "user"

\* the rate limiter entry of ip after one more counted request
Counted(rl, ip, t) ==
    IF ip \in DOMAIN rl /\ rl[ip].resetAt > t
    THEN [count |-> rl[ip].count + 1, resetAt |-> rl[ip].resetAt]
    ELSE [count |-> 1, resetAt |-> t + WINDOW_MS]

\* C10 (as stated): a request rejected with 401 or 429 leaves the rate
\* limiter map, the stored messages and sessions and the turns unchanged.
C10_RejectionMutatesNothing ==
    [][(reqs' = reqs + 1 /\ resp'.status \in {401, 429}) =>
           /\ rateLimiter' = rateLimiter
           /\ db_messages' = db_messages
           /\ db_sessions' = db_sessions
           /\ turns' = turns
           /\ dels' = dels]_vars

\* C10 (amended): a request rejected with 401 or 429 leaves the stored
\* messages and sessions unchanged and starts no turn; a 429 also leaves the
\* rate limiter map unchanged, while a 401 has been counted by the rate
\* limiter: the caller's entry has its count incremented, or is replaced by
\* a new window with count 1, and no other entry changes.
C10_RejectionEffects ==
    [][(reqs' = reqs + 1 /\ resp'.status \in {401, 429}) =>
           /\ db_messages' = db_messages
           /\ db_sessions' = db_sessions
           /\ turns' = turns
           /\ dels' = dels
           /\ uuids' = uuids
           /\ resp'.status = 429 => rateLimiter' = rateLimiter
           /\ resp'.status = 401 =>
                  rateLimiter' = MapSet(rateLimiter, resp'.ip,
                                        Counted(rateLimiter, resp'.ip, now))]_vars

\* a request answered 401 while a turn is in flight and messages are stored
C10_Witness ==
    /\ resp.status = 401
    /\ db_messages # <<>>
    /\ \E t \in DOMAIN turns : InFlight(t)
    /\ rateLimiter["ip1"].count >= 2

\* C18: after an admitted chat/completions request with a session id for
\* which no session exists, a session of that id exists and belongs to the
\* submitting user (so that reading it back answers 200 with the message).
C18_SessionCreatedOnFirstMessage ==
    [][(/\ reqs' = reqs + 1
        /\ resp'.route = "chat"
        /\ resp'.status = 200
        /\ resp'.sid # ""
        /\ resp'.sid \notin DOMAIN db_sessions)
       => (/\ resp'.sid \in DOMAIN db_sessions'
           /\ db_sessions'[resp'.sid].user_id = resp'.user)]_vars

(***************************************************************************)
(* SpecWatch: a turn of session HubSession from its submit on, while         *)
(* WebSocket clients join, publish to and leave the durable object of the    *)
(* same session                                                              *)
(***************************************************************************)
WatchSocks == {"w1", "w2"}

\* the state after POST /api/protected/sessions and an admitted
\* chat/completions of u1 for that session, no socket accepted yet
InitWatch ==
    /\ now = 0
    /\ rateLimiter = MapSet(EmptyMap, "ip1", [count |-> 2, resetAt |-> WINDOW_MS])
    /\ window = MapSet(EmptyMap, "ip1", [start |-> 0, admits |-> 2, denied |-> FALSE])
    /\ resp = Response(200, "chat", "ip1", "u1", HubSession, <<>>)
    /\ reqs = 2
    /\ db_sessions = MapSet(EmptyMap, HubSession, Session("u1", 0))
    /\ db_messages = <<Message(HubSession, "user", <<"q">>, 0)>>
    /\ \E s \in MainStreams : turns = MapSet(EmptyMap, 1, Turn("u1", HubSession, s))
    /\ dels = {}
    /\ uuids = 1
    /\ HubInit

NextWatch ==
    \/ Tick
    \/ \E t \in DOMAIN turns : TurnFetch(t)
    \/ \E t \in DOMAIN turns : TurnFetchFail(t)
    \/ \E t \in DOMAIN turns : TurnRead(t)
    \/ \E t \in DOMAIN turns : TurnReadDone(t)
    \/ \E t \in DOMAIN turns : TurnReadFail(t)
    \/ \E t \in DOMAIN turns : TurnSave(t)
    \/ \E t \in DOMAIN turns : TurnTouch(t)
    \/ \E w \in WatchSocks, u \in HubUsers : WsConnect(w, u)
    \/ \E w \in WatchSocks, d \in WsFrames : WsMessage(w, d)
    \/ \E w \in WatchSocks : WsPeerClose(w)
    \/ \E w \in WatchSocks : WsClose(w)

SpecWatch == InitWatch /\ [][NextWatch]_vars

\* C14: when an event of a turn of session S is written, every connection
\* joined to S whose socket is open receives it as well.
C14_EventsReachEveryConnection ==
    [][\A t \in DOMAIN turns :
          Len(turns'[t].out) > Len(turns[t].out) =>
              \A i \in 1..Len(sessions) :
                  (/\ sessions[i].sessionId = turns[t].sid
                   /\ sockets[sessions[i].socket] = "open")
                  => Len(inbox'[sessions[i].socket])
                         > Len(inbox[sessions[i].socket])]_vars

NextStreamLive ==
    \/ Tick
    \/ TurnRead(1)
    \/ TurnReadDone(1)
    \/ TurnReadFail(1)
    \/ TurnSave(1)
    \/ TurnTouch(1)

\* a pending reader.read() has bytes of the stream left to deliver: the guard
\* of TurnRead(1), whose step always advances pos
ChunkPending ==
    /\ turns[1].pc = "read"
    /\ turns[1].pos < Len(turns[1].stream)

\* weak fairness of TurnRead(1), with ENABLED <<TurnRead(1)>>_vars written as
\* the guard ChunkPending: a read that stays pending settles with its chunk
ChunkDelivered == []<>(~ChunkPending) \/ []<><<TurnRead(1)>>_vars

StatementProgress == TurnSave(1) \/ TurnTouch(1)

SpecStreamLive ==
    /\ InitStream
    /\ [][NextStreamLive]_vars
    /\ ChunkDelivered
    /\ WF_vars(TurnReadDone(1))
    /\ WF_vars(StatementProgress)

\* the callback never reads again once reader.read() has returned done or
\* rejected: the position in the stream stays, and the callback does not
\* return to the loop
NoReadAfterEnd ==
    \A t \in DOMAIN turns :
        /\ (turns[t].pc = "read" /\ turns[t].pos = Len(turns[t].stream)) =>
               turns'[t].pos = turns[t].pos
        /\ turns[t].pc \in {"save", "touch", "done", "failed"} =>
               /\ turns'[t].pc \in {"save", "touch", "done", "failed"}
               /\ turns'[t].pos = turns[t].pos
               /\ turns'[t].out = turns[t].out

Denies(ip) == InWindow(rateLimiter, ip, now) /\ OverLimit(rateLimiter[ip])

\* C11: a request the rate limiter denies is answered 429 whatever its
\* Authorization header and route (no user id is set, no handler statement
\* runs: messages, sessions, pending deletes and turns are unchanged), and
\* the rate limiter map, the identity's count and resetAt included, is
\* unchanged.
C11_DenialHasNoEffect ==
    [][(reqs' = reqs + 1 /\ Denies(resp'.ip)) =>
           /\ resp'.status = 429
           /\ resp'.user = ""
           /\ resp'.body = <<>>
           /\ rateLimiter' = rateLimiter
           /\ UNCHANGED <<dbVars, turns>>]_vars

\* a chat request denied while the turn of the request admitted before it
\* is in flight
C11_Witness ==
    /\ resp.status = 429
    /\ resp.route = "chat"
    /\ reqs = 2
    /\ rateLimiter["ip1"] = [count |-> RATE_LIMIT_MAX, resetAt |-> WINDOW_MS]
    /\ \E t \in DOMAIN turns : InFlight(t)

\* C12: whatever handlers of earlier requests are still running (turns
\* streaming, deletes between their two statements), the stored count of an
\* identity is the number of its requests admitted in the current window,
\* the stored resetAt is the end of that window, and the number admitted
\* never exceeds the quota.
C12_CountIsAdmitted ==
    \A ip \in DOMAIN rateLimiter :
        /\ ip \in DOMAIN window
        /\ rateLimiter[ip].count = window[ip].admits
        /\ rateLimiter[ip].resetAt = window[ip].start + WINDOW_MS
        /\ window[ip].admits <= RATE_LIMIT_MAX

\* the quota reached and a request denied while the handler of an earlier
\* request of the same identity, a delete between its two statements, is
\* still running
C12_Witness ==
    /\ "ip1" \in DOMAIN rateLimiter
    /\ rateLimiter["ip1"].count = RATE_LIMIT_MAX
    /\ window["ip1"].denied
    /\ \E d \in dels : d.ip = "ip1"

(***************************************************************************)
(* Ownership of the stored messages (SpecHistory)                           *)
(***************************************************************************)
\* the user on whose behalf a step changes the messages of session sid: the
\* authenticated caller of the request a handler step belongs to, or the
\* caller of the turn whose callback runs the assistant INSERT
ActsFor(user, sid) ==
    \/ /\ reqs' = reqs + 1
       /\ resp'.user = user
    \/ \E d \in dels :
           /\ d \notin dels'
           /\ d.sid = sid
           /\ d.user = user
    \/ \E t \in DOMAIN turns :
           /\ turns'[t].appended > turns[t].appended
           /\ turns[t].sid = sid
           /\ turns[t].user = user

\* C23: the stored messages of a session change only by a step performed for
\* the session's owner: neither a delete nor a submitted turn of another
\* user removes or appends messages of the session.
C23_OnlyOwnerChangesMessages ==
    [][\A sid \in DOMAIN db_sessions :
           History(db_messages', sid) # History(db_messages, sid) =>
               ActsFor(db_sessions[sid].user_id, sid)]_vars

\* C24: once the owner's delete of a session has completed (the row is gone
\* and the messages have been removed), a turn of that session that was in
\* flight across the delete stores no message when it finishes.
C24_NoOrphanAfterDelete ==
    [][\A t \in DOMAIN turns :
           (/\ turns[t].sid = SessionId(1)
            /\ turns'[t].appended > turns[t].appended
            /\ SessionId(1) \notin DOMAIN db_sessions
            /\ History(db_messages, SessionId(1)) = <<>>) =>
               History(db_messages', SessionId(1)) = <<>>]_vars

(***************************************************************************)
(* Reading a session (Spec)                                                 *)
(***************************************************************************)
\* C25: a read of a session that passed admission answers 200 with rows of
\* that session only when the sessions table holds a row of that id for the
\* caller; for an id without a row, or with a row of another user, it
\* answers 404 and carries no message.
C25_ReadOnlyByOwner ==
    [][(/\ reqs' = reqs + 1
        /\ resp'.route = "get"
        /\ resp'.status \notin {401, 429}) =>
           IF /\ resp'.sid \in DOMAIN db_sessions
              /\ db_sessions[resp'.sid].user_id = resp'.user
           THEN /\ resp'.status = 200
                /\ Len(resp'.body) = Len(History(db_messages, resp'.sid))
                /\ \A i \in 1..Len(resp'.body) :
                       resp'.body[i].session_id = resp'.sid
           ELSE /\ resp'.status = 404
                /\ resp'.body = <<>>]_vars

\* a user has read the session of another user and got 404
C25_Witness ==
    /\ resp.route = "get"
    /\ resp.status = 404
    /\ resp.sid \in DOMAIN db_sessions
    /\ db_sessions[resp.sid].user_id # resp.user
    /\ resp.user \in Users

(***************************************************************************)
(* The events of a stream, told from its bytes (SpecStream)                 *)
(***************************************************************************)
\* the lines of the decoded bytes that a newline ends
TerminatedLines(bytes) ==
    LET lines == SplitNL(Utf8Decode(FALSE, bytes, <<>>).text, <<>>, <<>>)
    IN SubSeq(lines, 1, Len(lines) - 1)

\* one payload per terminated, non-blank line that starts with 'data: ', in
\* the order of the lines, without the prefix
DataPayloads(bytes) ==
    LET ls == SelectSeq(TerminatedLines(bytes),
                        LAMBDA l : TrimTruthy(l) /\ StartsWithData(l))
    IN [i \in 1..Len(ls) |-> SubSeq(ls[i], 7, Len(ls[i]))]

RECURSIVE FirstPartText(_)
\* the text of parts[0] of each payload that parses
FirstPartText(payloads) ==
    IF payloads = <<>> THEN <<>>
    ELSE (IF JsonText(Head(payloads)).ok THEN JsonText(Head(payloads)).text
          ELSE <<>>) \o FirstPartText(Tail(payloads))

\* C26: the events written for a turn are the payloads of the terminated,
\* non-blank 'data: ' lines of the bytes read so far, one each and in stream
\* order (followed by the error event if the turn failed), and the
\* accumulated text comes from those payloads only: a line without the prefix
\* and a last line no newline has ended contribute neither an event nor text.
C26_OneEventPerDataLine ==
    \A t \in DOMAIN turns :
        LET read == SubSeq(turns[t].stream, 1, turns[t].pos) IN
        /\ turns[t].pc \in {"read", "save", "touch", "done"} =>
               turns[t].out = DataPayloads(read)
        /\ turns[t].pc \in {"save", "touch", "done"} =>
               turns[t].pos = Len(turns[t].stream)
        /\ turns[t].pc = "failed" =>
               turns[t].out = Append(DataPayloads(read), ErrorEvent)
        /\ turns[t].pc # "fetch" =>
               turns[t].fullResponse = FirstPartText(DataPayloads(read))

\* a stream of a terminated data line and an unterminated one has ended: one
\* event was written and the text is that of the first line alone
C26_Witness ==
    \E t \in DOMAIN turns :
        /\ turns[t].pc = "done"
        /\ turns[t].stream = FrameTextA \o FrameTail
        /\ turns[t].out = <<<<"{", "a", "}">>>>
        /\ turns[t].fullResponse = <<"a">>

(***************************************************************************)
(* The entries of the rate limiter, step by step (SpecRL)                   *)
(***************************************************************************)
\* the entry a request at time t writes when it opens a window
WindowOpenedAt(t) == [count |-> 1, resetAt |-> t + WINDOW_MS]

\* C27: the window of an identity is fixed: no step changes resetAt of an
\* entry while resetAt > now; resetAt changes only when the entry is replaced
\* by {count: 1, resetAt: now + WINDOW_MS}, which a request of that identity
\* arriving with now >= resetAt always does; an entry is created as
\* {count: 1, resetAt: now + WINDOW_MS}; entries are never removed, and a
\* request changes no entry but the one of its own identity.
C27_FixedWindow ==
    [][/\ \A ip \in DOMAIN rateLimiter :
              /\ ip \in DOMAIN rateLimiter'
              /\ rateLimiter'[ip] # rateLimiter[ip] => resp'.ip = ip
              /\ rateLimiter[ip].resetAt > now =>
                     rateLimiter'[ip].resetAt = rateLimiter[ip].resetAt
              /\ rateLimiter'[ip].resetAt # rateLimiter[ip].resetAt =>
                     rateLimiter'[ip] = WindowOpenedAt(now)
              /\ (now' = now /\ resp'.ip = ip /\ rateLimiter[ip].resetAt <= now) =>
                     rateLimiter'[ip] = WindowOpenedAt(now)
       /\ \A ip \in DOMAIN rateLimiter' \ DOMAIN rateLimiter :
              /\ resp'.ip = ip
              /\ rateLimiter'[ip] = WindowOpenedAt(now)]_vars

\* ip1 opened its window at TickMs and has just been served again at
\* 2 * TickMs, after a request of ip2 at that time: its resetAt is still the
\* one of the opening
C27_Witness ==
    /\ now = 2 * TickMs
    /\ DOMAIN rateLimiter = IPs
    /\ rateLimiter["ip2"].resetAt = 2 * TickMs + WINDOW_MS
    /\ resp.ip = "ip1"
    /\ rateLimiter["ip1"].resetAt = TickMs + WINDOW_MS
    /\ rateLimiter["ip1"].count >= 2

\* C28: every entry has 1 <= count <= RATE_LIMIT_MAX, and while an entry
\* keeps its resetAt (one window) its count never decreases.
C28_CountWithinQuota ==
    /\ [](\A ip \in DOMAIN rateLimiter :
              /\ rateLimiter[ip].count >= 1
              /\ rateLimiter[ip].count <= RATE_LIMIT_MAX)
    /\ [][\A ip \in DOMAIN rateLimiter \cap DOMAIN rateLimiter' :
              rateLimiter'[ip].resetAt = rateLimiter[ip].resetAt =>
                  rateLimiter'[ip].count >= rateLimiter[ip].count]_vars

\* one identity at the quota and just denied, the other at the least count
C28_Witness ==
    /\ DOMAIN rateLimiter = IPs
    /\ rateLimiter["ip1"].count = RATE_LIMIT_MAX
    /\ resp = Response(429, "logout", "ip1", "", "", <<>>)
    /\ rateLimiter["ip2"].count = 1

(***************************************************************************)
(* Inbound frames that are not JSON (SpecHub)                               *)
(***************************************************************************)
\* C30: the handling of an inbound frame that is not JSON writes to no
\* connection and leaves the Map of connections and the sockets as they
\* were; a well-formed frame handled after it is written to every connection
\* of the sender's session, when all their sockets are open.
C30_BadFrameIgnored ==
    [][/\ (lastPub'.n = lastPub.n + 1 /\ lastPub'.data = "bad") =>
              /\ inbox' = inbox
              /\ sessions' = sessions
              /\ sockets' = sockets
       /\ (/\ lastPub'.n = lastPub.n + 1
           /\ lastPub.data = "bad"
           /\ lastPub'.data # "bad"
           /\ \A j \in 1..Len(sessions) :
                  sessions[j].sessionId = lastPub'.sessionId =>
                      sockets[sessions[j].socket] = "open") =>
              \A i \in 1..Len(sessions) :
                  sessions[i].sessionId = lastPub'.sessionId =>
                      inbox'[sessions[i].socket] =
                          Append(inbox[sessions[i].socket],
                                 WsEvent(lastPub'.data, now))]_vars

\* every socket joined and open, two frames handled, and each connection has
\* received one event, that of the second frame: the first one was not JSON
C30_Witness ==
    /\ \A w \in Socks :
           /\ Joined(w)
           /\ sockets[w] = "open"
           /\ Len(inbox[w]) = 1
           /\ inbox[w][1].data = lastPub.data
    /\ lastPub.n = 2
    /\ lastPub.ok

(***************************************************************************)
(* Turns that persist nothing (Spec)                                        *)
(***************************************************************************)
\* C29: an admitted submit without a session id leaves the messages and the
\* sessions as they were, and so does every step of a turn that has no
\* session id or no accumulated text; a turn has inserted an assistant
\* message only with a session id and non-empty text.
C29_NothingPersisted ==
    /\ [](\A t \in DOMAIN turns :
              turns[t].appended >= 1 =>
                  /\ turns[t].sid # ""
                  /\ turns[t].fullResponse # <<>>)
    /\ [][/\ (/\ reqs' = reqs + 1
               /\ resp'.route = "chat"
               /\ resp'.status = 200
               /\ resp'.sid = "") =>
                  /\ db_messages' = db_messages
                  /\ db_sessions' = db_sessions
           /\ \A t \in DOMAIN turns :
                  (/\ turns'[t] # turns[t]
                   /\ \/ turns[t].sid = ""
                      \/ turns'[t].fullResponse = <<>>) =>
                      /\ db_messages' = db_messages
                      /\ db_sessions' = db_sessions]_vars

\* two turns have returned: one without a session id whose stream carried
\* text, one with a session id whose stream carried none; the only stored
\* message is the user message of the second
C29_Witness ==
    /\ \E t \in DOMAIN turns :
           /\ turns[t].pc = "done"
           /\ turns[t].sid = ""
           /\ turns[t].fullResponse # <<>>
    /\ \E t \in DOMAIN turns :
           /\ turns[t].pc = "done"
           /\ turns[t].sid # ""
           /\ turns[t].fullResponse = <<>>
    /\ Len(db_messages) = 1
    /\ db_messages[1].role = "user"

====
